---- MODULE Spec2Model ----
(***************************************************************************)
(* A model of the universe simulation: the bodies (objects.py), the        *)
(* physics engine (physics.py), the world that drives one tick and         *)
(* generates the bodies (universe.py), and the presentation loop with the  *)
(* events it handles (main.py, gui.py).                                    *)
(*                                                                         *)
(* Numbers.  The program computes in float64.  Here every length,          *)
(* velocity and force is a fixed-point number held as an integer count of  *)
(* 1/FP world units; masses, sizes and time steps are whole numbers.       *)
(* Division truncates toward zero, so that (-a)/b = -(a/b) as in IEEE      *)
(* arithmetic, and sqrt is the floor of the square root on the fixed-point *)
(* grid.  Masses are measured in the unit 1/(G*FORCE_CONSTANT), which      *)
(* makes the product of the two program constants 1.  A quotient smaller   *)
(* than one grid step rounds to zero, as a float64 quotient smaller than   *)
(* the least subnormal does.                                               *)
(***************************************************************************)
EXTENDS Integers, Sequences, FiniteSets, TLC

VARIABLES
    objects,              \* Universe.objects: the bodies, in dict (insertion) order
    time,                 \* Universe.time
    time_step,            \* Universe.time_step
    gravity_enabled,      \* PhysicsEngine.gravity_enabled
    collision_detection,  \* PhysicsEngine.collision_detection
    raised,               \* an exception escaped Universe.update()
    ticks,                \* number of update() calls made so far
    last,                 \* the last update(): its inputs and intermediate results
    created,              \* the bodies as they were constructed
    path,                 \* per body name, its position after each tick so far
    generation,           \* number of generate_universe() calls: a body is (name, generation)
    paused,               \* GUI.paused
    selected_object,      \* GUI.selected_object: None or the (name, generation) of a body
    show_info,            \* GUI.show_info
    pc,                   \* main(): where the loop is
    main_paused,          \* main(): the local variable paused
    nev,                  \* events handled so far by the current handle_events()
    query                 \* the last get_nearest_object(): its argument and result

engine == <<objects, time, time_step, gravity_enabled, collision_detection,
            raised, ticks, last, created, path, generation>>

gui == <<paused, selected_object, show_info>>

loop == <<pc, main_paused, nev>>

vars == <<engine, gui, loop, query>>

----------------------------------------------------------------------------
(* Bounds of the model *)

FP == 10                 \* fixed-point resolution: 1 world unit = FP grid steps
MaxBodies == 3           \* bodies in an initial world
MaxTicks == 2            \* update() calls explored from an initial world
MaxCoord == 15000        \* ticks are explored while every coordinate is within this
MaxTimeStep == 15        \* time_step is explored within -MaxTimeStep..MaxTimeStep
MaxGenerations == 2      \* generate_universe() calls explored
MaxEvents == 3           \* events handled in one run of the presentation loop
MaxLoopTicks == 2        \* update() calls explored in one run of the presentation loop
\* Universe.max_*_count, universe.py:20-24 (30, 300, 600, 3 and 3 in the
\* program), scaled down
max_star_count == 1
max_planet_count == 2
max_asteroid_count == 1
max_nebula_count == 1
max_black_hole_count == 1

(* Program constants *)

G == 1                         \* physics.py:15, in the mass unit 1/(G*FORCE_CONSTANT)
FORCE_CONSTANT == 1            \* physics.py:13
TIME_STEP == 5                 \* universe.py:11
DEFAULT_MAX_TRAIL_LENGTH == 50 \* objects.py:21
ASTEROID_MAX_TRAIL_LENGTH == 20 \* objects.py:150
NEBULA_MAX_TRAIL_LENGTH == 10  \* objects.py:160
\* sqrt(1 / FORCE_CONSTANT), physics.py:13: where the program uses G without
\* FORCE_CONSTANT, G is 1 / FORCE_CONSTANT = 10^10 in the model's mass unit
INV_FORCE_CONSTANT_ROOT == 100000
SCREEN_WIDTH == 1200           \* gui.py:9
SCREEN_HEIGHT == 800           \* gui.py:9
INV_ZOOM == 10                 \* gui.py:17: 1 / zoom, zoom = 0.1
SELECT_RADIUS == 50            \* gui.py:93

----------------------------------------------------------------------------
(* Arithmetic *)

None == "None"

\* No body: the value of a reference to a body that is None
NoObject == [name |-> None, generation |-> 0]

\* A str value, as opposed to a body
Str(v) == [str |-> v]

\* isinstance(x, cls) for cls one of the five kinds: x is a body of that kind
isinstance(x, cls) == "kind" \in DOMAIN x /\ x.kind = cls

Abs(a) == IF a >= 0 THEN a ELSE -a

\* float division a / b for b > 0, truncated to the grid, odd in a
Div(a, b) == IF a >= 0 THEN a \div b ELSE -((-a) \div b)

RECURSIVE SqrtIn(_, _, _)
SqrtIn(n, lo, hi) ==
    IF lo >= hi THEN lo
    ELSE LET mid == (lo + hi + 1) \div 2
         IN IF mid * mid <= n THEN SqrtIn(n, mid, hi) ELSE SqrtIn(n, lo, mid - 1)

\* math.sqrt on the grid: the floor of the square root
Sqrt(n) == SqrtIn(n, 0, 46340)

\* utils.calculate_distance
calculate_distance(pos1, pos2) ==
    LET dx == pos1[1] - pos2[1]
        dy == pos1[2] - pos2[2]
    IN Sqrt(dx * dx + dy * dy)

----------------------------------------------------------------------------
(* objects.py: CelestialObject *)

MaxTrailLength(kind) ==
    IF kind = "Asteroid" THEN ASTEROID_MAX_TRAIL_LENGTH
    ELSE IF kind = "Nebula" THEN NEBULA_MAX_TRAIL_LENGTH
    ELSE DEFAULT_MAX_TRAIL_LENGTH

\* CelestialObject.__init__ (and the subclasses' max_trail_length)
CelestialObject(name, kind, mass, position, velocity, size) ==
    [name |-> name, kind |-> kind, mass |-> mass, size |-> size,
     position |-> position, velocity |-> velocity,
     force |-> <<0, 0>>, trail |-> <<>>,
     max_trail_length |-> MaxTrailLength(kind)]

\* update_position evicting the newest entry instead of the oldest
update_position_evict_newest(obj, dt) ==
    LET p == <<obj.position[1] + obj.velocity[1] * dt,
               obj.position[2] + obj.velocity[2] * dt>>
        t == Append(obj.trail, p)
    IN [obj EXCEPT !.position = p,
                   !.trail = IF Len(t) > obj.max_trail_length
                             THEN SubSeq(t, 1, Len(t) - 1) ELSE t]

update_position(obj, dt) ==
    LET p == <<obj.position[1] + obj.velocity[1] * dt,
               obj.position[2] + obj.velocity[2] * dt>>
        t == Append(obj.trail, p)
    IN [obj EXCEPT !.position = p,
                   !.trail = IF Len(t) > obj.max_trail_length THEN Tail(t) ELSE t]

\* update_velocity adding force * dt, not divided by the mass
update_velocity_no_mass(obj, dt) ==
    IF obj.mass > 0 /\ obj.kind # "BlackHole"
    THEN [obj EXCEPT !.velocity = <<obj.velocity[1] + obj.force[1] * dt,
                                   obj.velocity[2] + obj.force[2] * dt>>]
    ELSE obj

\* update_velocity without the BlackHole test
update_velocity_any_kind(obj, dt) ==
    IF obj.mass > 0
    THEN [obj EXCEPT !.velocity = <<obj.velocity[1] + Div(obj.force[1], obj.mass) * dt,
                                   obj.velocity[2] + Div(obj.force[2], obj.mass) * dt>>]
    ELSE obj

update_velocity(obj, dt) ==
    IF obj.mass > 0 /\ obj.kind # "BlackHole"
    THEN LET acceleration_x == Div(obj.force[1], obj.mass)
             acceleration_y == Div(obj.force[2], obj.mass)
         IN [obj EXCEPT !.velocity = <<obj.velocity[1] + acceleration_x * dt,
                                       obj.velocity[2] + acceleration_y * dt>>]
    ELSE obj

reset_force(obj) == [obj EXCEPT !.force = <<0, 0>>]

add_force(obj, force_x, force_y) ==
    [obj EXCEPT !.force = <<obj.force[1] + force_x, obj.force[2] + force_y>>]

----------------------------------------------------------------------------
(* physics.py: PhysicsEngine *)

\* G * mass1 * mass2 / distance^2, as a fixed-point force (distance on the grid)
calculate_gravitational_force(mass1, mass2, distance) ==
    IF distance = 0 THEN 0
    ELSE Div(G * mass1 * mass2 * FP * FP * FP, distance * distance)

\* ForceVisit without the two zero tests: a pair at distance 0 is treated as
\* one world unit apart along the x axis, the later body on the right
ForceVisit_zero_distance(objs, i, j) ==
    LET obj1 == objs[i]
        obj2 == objs[j]
    IN IF i # j /\ obj1.mass > 0 /\ obj2.mass > 0
       THEN LET d == calculate_distance(obj1.position, obj2.position)
                distance == IF d > 0 THEN d ELSE FP
                force_magnitude ==
                    calculate_gravitational_force(obj1.mass, obj2.mass, distance)
                dx == IF d > 0 THEN obj2.position[1] - obj1.position[1] ELSE IF i < j THEN FP ELSE -FP
                dy == obj2.position[2] - obj1.position[2]
                ux == Div(dx * FP, distance)
                uy == Div(dy * FP, distance)
                force_x == Div(force_magnitude * ux, FP) * FORCE_CONSTANT
                force_y == Div(force_magnitude * uy, FP) * FORCE_CONSTANT
            IN [objs EXCEPT ![i] = add_force(obj1, force_x, force_y),
                            ![j] = add_force(obj2, -force_x, -force_y)]
       ELSE objs

\* The body of the two nested loops for one (i, j): lines 33-55
ForceVisit(objs, i, j) ==
    LET obj1 == objs[i]
        obj2 == objs[j]
    IN IF i # j /\ obj1.mass > 0 /\ obj2.mass > 0
       THEN LET distance == calculate_distance(obj1.position, obj2.position)
            IN IF distance > 0
               THEN LET force_magnitude ==
                            calculate_gravitational_force(obj1.mass, obj2.mass, distance)
                        dx == obj2.position[1] - obj1.position[1]
                        dy == obj2.position[2] - obj1.position[2]
                        length == Sqrt(dx * dx + dy * dy)
                    IN IF length > 0
                       THEN LET ux == Div(dx * FP, length)
                                uy == Div(dy * FP, length)
                                force_x == Div(force_magnitude * ux, FP) * FORCE_CONSTANT
                                force_y == Div(force_magnitude * uy, FP) * FORCE_CONSTANT
                            IN [objs EXCEPT ![i] = add_force(obj1, force_x, force_y),
                                            ![j] = add_force(obj2, -force_x, -force_y)]
                       ELSE objs
               ELSE objs
       ELSE objs

\* The nested loops, visit k = (i-1)*n + (j-1) onward, in the code's order
RECURSIVE ForceLoop(_, _)
ForceLoop(objs, k) ==
    LET n == Len(objs)
    IN IF k >= n * n THEN objs
       ELSE ForceLoop(ForceVisit(objs, (k \div n) + 1, (k % n) + 1), k + 1)

calculate_gravitational_forces(objs, enabled) ==
    IF ~enabled THEN objs
    ELSE ForceLoop([i \in 1..Len(objs) |-> reset_force(objs[i])], 0)

\* update_objects with the two loops exchanged: positions first
update_objects_position_first(objs, dt) ==
    LET pos == [i \in 1..Len(objs) |-> update_position(objs[i], dt)]
    IN [i \in 1..Len(objs) |-> update_velocity(pos[i], dt)]

update_objects(objs, dt) ==
    LET vel == [i \in 1..Len(objs) |-> update_velocity(objs[i], dt)]
    IN [i \in 1..Len(objs) |-> update_position(vel[i], dt)]

\* All (i, j) in the order the nested loops visit them
LoopPairs(n) == [k \in 1..(n * n) |-> <<((k - 1) \div n) + 1, ((k - 1) % n) + 1>>]

\* Collides with i != j for i < j: every pair is reported in both orders
Collides_both_orders(objs, pr) ==
    /\ pr[1] # pr[2]
    /\ calculate_distance(objs[pr[1]].position, objs[pr[2]].position)
           < (objs[pr[1]].size + objs[pr[2]].size) * FP

Collides(objs, pr) ==
    /\ pr[1] < pr[2]
    /\ calculate_distance(objs[pr[1]].position, objs[pr[2]].position)
           < (objs[pr[1]].size + objs[pr[2]].size) * FP

\* check_collisions: None when detection is off, else the list of index pairs
check_collisions(objs, detection) ==
    IF ~detection THEN [none |-> TRUE, pairs |-> <<>>]
    ELSE [none |-> FALSE,
          pairs |-> SelectSeq(LoopPairs(Len(objs)), LAMBDA pr : Collides(objs, pr))]

\* handle_collision with > for >=: a tie removes the first operand
handle_collision_tie_first(obj1, obj2) == IF obj1.mass > obj2.mass THEN obj2 ELSE obj1

\* handle_collision: the object to remove
handle_collision(obj1, obj2) == IF obj1.mass >= obj2.mass THEN obj2 ELSE obj1

\* calculate_orbital_velocity taking the magnitude of the mass
calculate_orbital_velocity_abs_mass(central_mass, distance) ==
    IF distance <= 0 THEN 0
    ELSE INV_FORCE_CONSTANT_ROOT
           * Sqrt(Div(G * Abs(central_mass) * FP * FP * FP, distance))

\* sqrt(G * central_mass / distance) as a fixed-point velocity, lines 100-104
calculate_orbital_velocity(central_mass, distance) ==
    IF distance <= 0 \/ central_mass <= 0 THEN 0
    ELSE INV_FORCE_CONSTANT_ROOT * Sqrt(Div(G * central_mass * FP * FP * FP, distance))

\* <<cos(angle), sin(angle)>> for angle = atan2(to - from): the unit vector
\* from one position to the other, <<1, 0>> when they coincide (atan2(0, 0) = 0)
Bearing(from, to) ==
    LET dx == to[1] - from[1]
        dy == to[2] - from[2]
        length == Sqrt(dx * dx + dy * dy)
    IN IF length = 0 THEN <<FP, 0>>
       ELSE <<Div(dx * FP, length), Div(dy * FP, length)>>

\* create_stable_orbit without the test of orbital_distance
create_stable_orbit_any_distance(objs, c, o, orbital_distance) ==
    IF objs[c].mass <= 0 THEN objs
    ELSE LET orbital_velocity ==
                 calculate_orbital_velocity(objs[c].mass, orbital_distance)
             angle == Bearing(objs[c].position, objs[o].position)
         IN [objs EXCEPT
               ![o].position = <<objs[c].position[1] + Div(orbital_distance * angle[1], FP),
                                 objs[c].position[2] + Div(orbital_distance * angle[2], FP)>>,
               ![o].velocity = <<objs[c].velocity[1] - Div(orbital_velocity * angle[2], FP),
                                 objs[c].velocity[2] + Div(orbital_velocity * angle[1], FP)>>]

\* create_stable_orbit, lines 106-125, on the bodies numbered c (central) and
\* o (orbiting) of objs
create_stable_orbit(objs, c, o, orbital_distance) ==
    IF objs[c].mass <= 0 \/ orbital_distance <= 0 THEN objs
    ELSE LET orbital_velocity ==
                 calculate_orbital_velocity(objs[c].mass, orbital_distance)
             angle == Bearing(objs[c].position, objs[o].position)
         IN [objs EXCEPT
               ![o].position = <<objs[c].position[1] + Div(orbital_distance * angle[1], FP),
                                 objs[c].position[2] + Div(orbital_distance * angle[2], FP)>>,
               ![o].velocity = <<objs[c].velocity[1] - Div(orbital_velocity * angle[2], FP),
                                 objs[c].velocity[2] + Div(orbital_velocity * angle[1], FP)>>]

----------------------------------------------------------------------------
(* universe.py: Universe *)

HasName(objs, nm) == \E i \in 1..Len(objs) : objs[i].name = nm

\* The removal loop leaving after its first pop
RemoveAll_first_only(objs, marked) ==
    IF marked = <<>> THEN objs
    ELSE SelectSeq(objs, LAMBDA o : o.name # Head(marked).name)

\* The removal loop adding the mass of the first removed body to every survivor
RemoveAll_absorb(objs, marked) ==
    IF marked = <<>> THEN objs
    ELSE LET kept == SelectSeq(objs, LAMBDA o : \A k \in 1..Len(marked) :
                                                   o.name # marked[k].name)
         IN [i \in 1..Len(kept) |-> [kept[i] EXCEPT !.mass = @ + marked[1].mass]]

\* lines 158-160: pop each marked name that is still a key
RECURSIVE RemoveAll(_, _)
RemoveAll(objs, marked) ==
    IF marked = <<>> THEN objs
    ELSE LET nm == Head(marked).name
             rest == IF HasName(objs, nm)
                     THEN SelectSeq(objs, LAMBDA o : o.name # nm)
                     ELSE objs
         IN RemoveAll(rest, Tail(marked))

Find(objs, nm) == objs[CHOOSE i \in 1..Len(objs) : objs[i].name = nm]

InWindow(objs) ==
    \A i \in 1..Len(objs) :
        Abs(objs[i].position[1]) <= MaxCoord /\ Abs(objs[i].position[2]) <= MaxCoord

\* Universe.update(), lines 140-162.  When check_collisions returns None the
\* for loop over it raises TypeError: the bodies are already integrated, nothing
\* is removed and time is not advanced.
Tick(limit) ==
    /\ ~raised
    /\ ticks < limit
    /\ InWindow(objects)
    /\ \E forced \in {calculate_gravitational_forces(objects, gravity_enabled)} :
       \E moved \in {update_objects(forced, time_step)} :
       \E collisions \in {check_collisions(moved, collision_detection)} :
       \E to_remove \in {[k \in 1..Len(collisions.pairs) |->
                             handle_collision(moved[collisions.pairs[k][1]],
                                              moved[collisions.pairs[k][2]])]} :
          /\ raised' = collisions.none
          /\ objects' = IF collisions.none THEN moved ELSE RemoveAll(moved, to_remove)
          /\ time' = IF collisions.none THEN time ELSE time + time_step
          /\ last' = [op |-> "update", time |-> time, pre |-> objects, forced |-> forced,
                      moved |-> moved, gravity |-> gravity_enabled, dt |-> time_step,
                      pairs |-> collisions.pairs,
                      to_remove |-> [k \in 1..Len(to_remove) |-> to_remove[k].name]]
          /\ path' = [nm \in DOMAIN path |->
                        IF HasName(moved, nm)
                        THEN Append(path[nm], Find(moved, nm).position)
                        ELSE path[nm]]
    /\ ticks' = ticks + 1
    /\ UNCHANGED <<time_step, gravity_enabled, collision_detection, created, generation>>

\* Universe.update() called on its own, outside the presentation loop
Update(limit) == Tick(limit) /\ UNCHANGED <<gui, loop, query>>

\* Universe.increase_time_step, lines 164-165
increase_time_step ==
    /\ ~raised
    /\ time_step + 5 <= MaxTimeStep
    /\ time_step' = time_step + 5
    /\ UNCHANGED <<objects, time, gravity_enabled, collision_detection, raised, ticks,
                   last, created, path, generation>>

\* Universe.decrease_time_step, lines 167-168
decrease_time_step ==
    /\ ~raised
    /\ time_step - 5 >= -MaxTimeStep
    /\ time_step' = time_step - 5
    /\ UNCHANGED <<objects, time, gravity_enabled, collision_detection, raised, ticks,
                   last, created, path, generation>>

IncreaseTimeStep == increase_time_step /\ UNCHANGED <<gui, loop, query>>

DecreaseTimeStep == decrease_time_step /\ UNCHANGED <<gui, loop, query>>

\* A caller assigns PhysicsEngine.gravity_enabled (physics.py:18)
SetGravityEnabled ==
    /\ ~raised
    /\ gravity_enabled' = ~gravity_enabled
    /\ UNCHANGED <<objects, time, time_step, collision_detection, raised, ticks,
                   last, created, path, generation, gui, loop, query>>

----------------------------------------------------------------------------
(* universe.py: generation.  The random draws of one generate_universe() are a
   record d: per kind the sequence of the draws of its bodies. *)

StarNames == <<"Star-001", "Star-002", "Star-003">>
PlanetNames == <<"Planet-001", "Planet-002", "Planet-003", "Planet-004">>
AsteroidNames == <<"Asteroid-001", "Asteroid-002", "Asteroid-003">>
NebulaNames == <<"Nebula-01", "Nebula-02", "Nebula-03">>
BlackHoleNames == <<"BlackHole-01", "BlackHole-02", "BlackHole-03">>

\* The mass given to a body of each kind
GenMass(kind) ==
    IF kind \in {"Star", "BlackHole"} THEN 300
    ELSE IF kind = "Planet" THEN 10
    ELSE IF kind = "Nebula" THEN 5
    ELSE 1

\* Planet.MERCURY_DIAMETER, Planet.JUPITER_DIAMETER: objects.py:108-109
MERCURY_DIAMETER == 4879 \div 2000
JUPITER_DIAMETER == 142984 \div 2000

\* The sizes random.randint can return in the constructor of each kind:
\* objects.py:75, 114, 147, 157, 189
SizeRange(kind) ==
    IF kind = "Star" THEN 15..30
    ELSE IF kind = "Planet" THEN (MERCURY_DIAMETER - 2000)..(JUPITER_DIAMETER + 2000)
    ELSE IF kind = "Asteroid" THEN 2..5
    ELSE IF kind = "Nebula" THEN 20..50
    ELSE 5..15

\* One size of each kind's range, for the universes in which the sizes are not
\* what is examined
GenSize(kind) ==
    IF kind = "Star" THEN 15
    ELSE IF kind = "Nebula" THEN 20
    ELSE IF kind = "Asteroid" THEN 2
    ELSE 5

\* Star, Asteroid, Nebula, BlackHole: objects.py:73-76, 145-150, 155-160, 187-191;
\* size is the outcome of the constructor's random.randint
Body(kind, name, position, velocity, size) ==
    CelestialObject(name, kind, GenMass(kind), position, velocity, size)

\* Planet.__init__, objects.py:111-119; size is the outcome of random.randint
Planet(name, position, velocity, parent_star, size) ==
    [name |-> name, kind |-> "Planet", mass |-> GenMass("Planet"),
     size |-> size, position |-> position, velocity |-> velocity,
     force |-> <<0, 0>>, trail |-> <<>>,
     max_trail_length |-> MaxTrailLength("Planet"), parent_star |-> parent_star]

\* Iterating a dict yields its keys: `for obj in self.objects`
Keys(objs) == [i \in 1..Len(objs) |-> Str(objs[i].name)]

\* _generate_stars, _generate_asteroids, _generate_nebulae, _generate_black_holes:
\* one body per draw, added to the dict in order
RECURSIVE GenerateBodies(_, _, _, _, _)
GenerateBodies(objs, kind, names, draws, i) ==
    IF i > Len(draws) THEN objs
    ELSE GenerateBodies(Append(objs, Body(kind, names[i], draws[i].position,
                                          draws[i].velocity, draws[i].size)),
                        kind, names, draws, i + 1)

\* _generate_planets, lines 62-95: planet i of the draws
RECURSIVE GeneratePlanets(_, _, _)
GeneratePlanets(objs, draws, i) ==
    IF i > Len(draws) THEN objs
    ELSE LET p == draws[i]
             stars == SelectSeq(Keys(objs), LAMBDA obj : isinstance(obj, "Star"))
             planet ==
                 IF p.below /\ Len(stars) > 0
                 THEN LET parent_star == stars[p.choice]
                          position ==
                              <<parent_star.position[1] + Div(p.distance * p.angle[1], FP),
                                parent_star.position[2] + Div(p.distance * p.angle[2], FP)>>
                          orbital_velocity ==
                              calculate_orbital_velocity(parent_star.mass, p.distance)
                          velocity ==
                              <<parent_star.velocity[1]
                                   - Div(orbital_velocity * p.angle[2], FP),
                                parent_star.velocity[2]
                                   + Div(orbital_velocity * p.angle[1], FP)>>
                      IN Planet(PlanetNames[i], position, velocity, parent_star.name,
                                p.size)
                 ELSE Planet(PlanetNames[i], p.position, p.velocity, None, p.size)
         IN GeneratePlanets(Append(objs, planet), draws, i + 1)

IndexOf(objs, nm) == CHOOSE i \in 1..Len(objs) : objs[i].name = nm

\* _setup_stable_orbits, lines 128-138: the loop over planets; g holds the
\* bodies and the number of create_stable_orbit calls made so far
RECURSIVE SetupLoop(_, _)
SetupLoop(g, planets) ==
    IF planets = <<>> THEN g
    ELSE LET planet == Head(planets)
         IN IF planet.parent_star # None
            THEN LET c == IndexOf(g.objects, planet.parent_star)
                     o == IndexOf(g.objects, planet.name)
                     distance == calculate_distance(g.objects[o].position,
                                                    g.objects[c].position)
                 IN SetupLoop([objects |-> create_stable_orbit(g.objects, c, o, distance),
                               orbit_calls |-> g.orbit_calls + 1],
                              Tail(planets))
            ELSE SetupLoop(g, Tail(planets))

_setup_stable_orbits(objs) ==
    LET planets == SelectSeq(Keys(objs),
                             LAMBDA obj : isinstance(obj, "Planet")
                                            /\ obj.parent_star # None)
    IN SetupLoop([objects |-> objs, orbit_calls |-> 0], planets)

\* generate_universe, lines 27-50: the bodies, and the number of
\* create_stable_orbit calls made
generate_universe(d) ==
    LET stars == GenerateBodies(<<>>, "Star", StarNames, d.stars, 1)
        planets == GeneratePlanets(stars, d.planets, 1)
        asteroids == GenerateBodies(planets, "Asteroid", AsteroidNames, d.asteroids, 1)
        nebulae == GenerateBodies(asteroids, "Nebula", NebulaNames, d.nebulae, 1)
        black_holes == GenerateBodies(nebulae, "BlackHole", BlackHoleNames,
                                      d.black_holes, 1)
    IN _setup_stable_orbits(black_holes)

\* Universe.reset(), lines 223-227, with the draws of the new seed taken from
\* draws; main() calls generate_universe() itself once, at time 0
reset(draws) ==
    /\ ~raised
    /\ generation < MaxGenerations
    /\ \E d \in draws :
       \E g \in {generate_universe(d)} :
          /\ objects' = g.objects
          /\ created' = g.objects
          /\ path' = [nm \in {g.objects[i].name : i \in 1..Len(g.objects)} |-> <<>>]
          /\ last' = [op |-> "generate_universe", draws |-> d,
                      orbit_calls |-> g.orbit_calls]
    /\ time' = 0
    /\ generation' = generation + 1
    /\ UNCHANGED <<time_step, gravity_enabled, collision_detection, raised, ticks>>

Reset(draws) == reset(draws) /\ UNCHANGED <<gui, loop, query>>

\* The loop of get_nearest_object with <= for <: the last of the nearest bodies
RECURSIVE NearestLoop_last_on_tie(_, _, _, _)
NearestLoop_last_on_tie(objs, position, k, best) ==
    IF k > Len(objs) THEN best
    ELSE LET distance == calculate_distance(position, objs[k].position)
         IN NearestLoop_last_on_tie(objs, position, k + 1,
                IF best.inf \/ distance <= best.min_distance
                THEN [nearest_obj |-> objs[k].name, inf |-> FALSE,
                      min_distance |-> distance]
                ELSE best)

\* The loop of get_nearest_object, lines 177-181, from body k on; best is
\* (nearest_obj, min_distance), with inf set while min_distance is float('inf')
RECURSIVE NearestLoop(_, _, _, _)
NearestLoop(objs, position, k, best) ==
    IF k > Len(objs) THEN best
    ELSE LET distance == calculate_distance(position, objs[k].position)
         IN NearestLoop(objs, position, k + 1,
                IF best.inf \/ distance < best.min_distance
                THEN [nearest_obj |-> objs[k].name, inf |-> FALSE,
                      min_distance |-> distance]
                ELSE best)

\* Universe.get_nearest_object, lines 170-183
get_nearest_object(objs, position) ==
    NearestLoop(objs, position, 1, [nearest_obj |-> None, inf |-> TRUE, min_distance |-> 0])

----------------------------------------------------------------------------
(* gui.py: GUI, with the camera where GUI.__init__ puts it *)

camera_pos == <<0, 0>>

\* utils.screen_to_world, utils.py:49-53, at zoom 0.1
screen_to_world(screen_pos) ==
    <<(screen_pos[1] - SCREEN_WIDTH \div 2) * INV_ZOOM * FP + camera_pos[1],
      (screen_pos[2] - SCREEN_HEIGHT \div 2) * INV_ZOOM * FP + camera_pos[2]>>

\* GUI.handle_left_click, lines 86-98
handle_left_click(pos) ==
    \E world_pos \in {screen_to_world(pos)} :
    \E nearest \in {get_nearest_object(objects, world_pos)} :
       /\ query' = [made |-> TRUE, position |-> world_pos, objects |-> objects,
                    result |-> nearest]
       /\ IF nearest.nearest_obj # None /\ ~nearest.inf
              /\ Div(nearest.min_distance, INV_ZOOM) < SELECT_RADIUS * FP
          THEN /\ selected_object' = [name |-> nearest.nearest_obj,
                                      generation |-> generation]
               /\ show_info' = TRUE
          ELSE /\ selected_object' = NoObject
               /\ show_info' = FALSE
       /\ UNCHANGED paused

\* One more event of the queue is taken by the loop of handle_events, line 40
TakeEvent ==
    /\ pc = "events"
    /\ nev < MaxEvents
    /\ nev' = nev + 1

\* pygame.QUIT or K_ESCAPE: return False, False; main() leaves its loop
HandleQuit ==
    /\ TakeEvent
    /\ pc' = "done"
    /\ UNCHANGED <<engine, gui, main_paused, query>>

\* K_SPACE, lines 47-48
HandleSpace ==
    /\ TakeEvent
    /\ paused' = ~paused
    /\ UNCHANGED <<engine, selected_object, show_info, pc, main_paused, query>>

\* K_r, lines 49-50
HandleReset(draws) ==
    /\ TakeEvent
    /\ reset(draws)
    /\ UNCHANGED <<gui, pc, main_paused, query>>

\* K_2, lines 59-60
HandleIncreaseTimeStep ==
    /\ TakeEvent
    /\ increase_time_step
    /\ UNCHANGED <<gui, pc, main_paused, query>>

\* K_1, lines 61-62
HandleDecreaseTimeStep ==
    /\ TakeEvent
    /\ decrease_time_step
    /\ UNCHANGED <<gui, pc, main_paused, query>>

\* MOUSEBUTTONDOWN, button 1, lines 63-65
HandleLeftClick(positions) ==
    /\ TakeEvent
    /\ \E pos \in positions : handle_left_click(pos)
    /\ UNCHANGED <<engine, pc, main_paused>>

\* The queue is empty: handle_events returns (True, self.paused), line 84
EndEvents ==
    /\ pc = "events"
    /\ pc' = "render"
    /\ main_paused' = paused
    /\ UNCHANGED <<engine, gui, nev, query>>

----------------------------------------------------------------------------
(* main.py: the presentation loop *)

\* gui.render(universe), line 51: reads the universe, changes nothing of it
Render ==
    /\ pc = "render"
    /\ pc' = "update"
    /\ UNCHANGED <<engine, gui, main_paused, nev, query>>

\* `if not paused`, line 54, answering always
ShouldUpdate_always(p) == TRUE

\* `if not paused`, line 54
ShouldUpdate(p) == ~p

\* lines 54-55 when the tick is made; an exception ends the loop (line 59)
LoopUpdate ==
    /\ pc = "update"
    /\ ShouldUpdate(main_paused)
    /\ Tick(MaxLoopTicks)
    /\ pc' = IF raised' THEN "done" ELSE "events"
    /\ UNCHANGED <<gui, main_paused, nev, query>>

\* lines 54-55 when the tick is skipped
LoopSkip ==
    /\ pc = "update"
    /\ ~ShouldUpdate(main_paused)
    /\ pc' = "events"
    /\ UNCHANGED <<engine, gui, main_paused, nev, query>>

----------------------------------------------------------------------------
(* Initial worlds *)

Names == <<"A", "B", "C", "D">>
Masses == {0, 5, 10}
Positions == {<<0, 0>>, <<9, 0>>, <<0, 12>>}
V0 == <<1, 2>>
\* The first body: a planet at rest, a planet in motion, or a black hole in motion
Firsts == {<<"Planet", <<0, 0>>>>, <<"Planet", V0>>, <<"BlackHole", V0>>}

SizeOf(kind) == IF kind = "BlackHole" THEN 7 ELSE 5

Scaled(p) == <<p[1] * FP, p[2] * FP>>

\* The worlds of n bodies with the given masses and positions; the bodies after
\* the first are planets at rest
Worlds(n, masses, positions) ==
    { [i \in 1..n |->
          IF i = 1
          THEN CelestialObject(Names[1], f[1], m[1], Scaled(p[1]), Scaled(f[2]), SizeOf(f[1]))
          ELSE CelestialObject(Names[i], "Planet", m[i], Scaled(p[i]), <<0, 0>>,
                               SizeOf("Planet"))] :
        f \in Firsts, m \in [1..n -> masses], p \in [1..n -> positions] }

\* GUI.__init__, gui.py:27-33
InitGUI ==
    /\ paused = FALSE
    /\ selected_object = NoObject
    /\ show_info = FALSE

NoQuery == [made |-> FALSE]

NoLast == [op |-> "init", time |-> 0, pre |-> <<>>, forced |-> <<>>, moved |-> <<>>,
           gravity |-> TRUE, dt |-> 0, pairs |-> <<>>, to_remove |-> <<>>]

InitUniverse(ws, gen) ==
    /\ objects \in ws
    /\ created = objects
    /\ path = [nm \in {objects[i].name : i \in 1..Len(objects)} |-> <<>>]
    /\ time = 0
    /\ time_step = TIME_STEP
    /\ raised = FALSE
    /\ ticks = 0
    /\ last = NoLast
    /\ generation = gen
    /\ InitGUI
    /\ pc = "engine"
    /\ main_paused = FALSE
    /\ nev = 0
    /\ query = NoQuery

\* A world of bodies constructed by the caller
InitWorld(ws) == InitUniverse(ws, 1)

\* The program as built: both engine flags at their constructor values
\* (physics.py:18-19), which no code of the repository changes
Init ==
    /\ InitWorld(UNION {Worlds(n, Masses, Positions) : n \in 0..MaxBodies})
    /\ gravity_enabled = TRUE
    /\ collision_detection = TRUE

Next == Update(MaxTicks)

Spec == Init /\ [][Next]_vars

\* The engine under a caller that sets its two flags
FlagMasses == {0, 10}
FlagPositions == {<<0, 0>>, <<9, 0>>}

InitFlags ==
    /\ InitWorld(UNION {Worlds(n, FlagMasses, FlagPositions) : n \in 0..MaxBodies})
    /\ gravity_enabled \in BOOLEAN
    /\ collision_detection \in BOOLEAN

NextFlags == Update(MaxTicks) \/ SetGravityEnabled

SpecFlags == InitFlags /\ [][NextFlags]_vars

\* Two bodies of equal mass at rest at (-10, 0) and (10, 0)
MaxAttractTicks == 5
AttractMasses == {20 * k : k \in 1..15}
AttractSizes == {1, 3, 15}

InitAttract ==
    /\ InitWorld({ <<CelestialObject("A", "Planet", m, Scaled(<<-10, 0>>), <<0, 0>>, sz),
                     CelestialObject("B", "Planet", m, Scaled(<<10, 0>>), <<0, 0>>, sz)>> :
                   m \in AttractMasses, sz \in AttractSizes })
    /\ gravity_enabled = TRUE
    /\ collision_detection = TRUE

NextAttract == Update(MaxAttractTicks)

SpecAttract == InitAttract /\ [][NextAttract]_vars

\* One body of each kind, at rest or in motion, ticked past every trail capacity
MaxTrailTicks == 52
TrailKinds == {"Star", "Planet", "Asteroid", "Nebula", "BlackHole"}

InitTrail ==
    /\ InitWorld({ <<CelestialObject("A", k, 5, <<0, 0>>, Scaled(v), SizeOf(k))>> :
                   k \in TrailKinds, v \in {<<0, 0>>, V0} })
    /\ gravity_enabled = TRUE
    /\ collision_detection = TRUE

NextTrail == Update(MaxTrailTicks)

SpecTrail == InitTrail /\ [][NextTrail]_vars

\* The orbital helpers called once on their own: calculate_orbital_velocity on
\* any two numbers, create_stable_orbit on two distinct bodies of a world of two
OrbitMasses == {-5, 0, 1, 5, 100}
OrbitDistances == {-5, 0, 1, 20, 100, 150}
OrbitBodyMasses == {0, 5, 100}
OrbitPositions == {<<0, 0>>, <<3, 4>>, <<0, 12>>}

CalculateOrbitalVelocity ==
    /\ last.op = "init"
    /\ \E central_mass \in OrbitMasses, distance \in OrbitDistances :
          last' = [op |-> "calculate_orbital_velocity",
                   central_mass |-> central_mass, distance |-> distance * FP,
                   result |-> calculate_orbital_velocity(central_mass, distance * FP)]
    /\ UNCHANGED <<objects, time, time_step, gravity_enabled, collision_detection,
                   raised, ticks, created, path, generation, gui, loop, query>>

CreateStableOrbit ==
    /\ last.op \in {"init", "update"}
    /\ Len(objects) = 2
    /\ \E c, o \in 1..2, orbital_distance \in OrbitDistances :
          /\ c # o
          /\ objects' = create_stable_orbit(objects, c, o, orbital_distance * FP)
          /\ last' = [op |-> "create_stable_orbit", pre |-> objects, central |-> c,
                      orbiting |-> o, orbital_distance |-> orbital_distance * FP]
    /\ UNCHANGED <<time, time_step, gravity_enabled, collision_detection,
                   raised, ticks, created, path, generation, gui, loop, query>>

InitOrbit ==
    /\ InitWorld(Worlds(2, OrbitBodyMasses, OrbitPositions))
    /\ gravity_enabled = TRUE
    /\ collision_detection = TRUE

\* One tick may come first, so that the bodies have a trail
NextOrbit ==
    \/ (last.op = "init" /\ Update(MaxTicks))
    \/ CalculateOrbitalVelocity
    \/ CreateStableOrbit

SpecOrbit == InitOrbit /\ [][NextOrbit]_vars

\* Generation: Universe() followed by generate_universe() and reset() calls
SeqsOf(S, lo, hi) == UNION {[1..n -> S] : n \in lo..hi}

StarDraws ==
    {[position |-> Scaled(<<0, 0>>), velocity |-> <<0, 0>>, size |-> GenSize("Star")]}
PlanetDraws ==
    {[below |-> b, position |-> Scaled(p), velocity |-> <<0, 0>>,
      choice |-> 1, angle |-> <<FP, 0>>, distance |-> 50 * FP,
      size |-> GenSize("Planet")] :
        b \in BOOLEAN, p \in {<<9, 0>>, <<20, 0>>, <<40, 0>>}}
AsteroidDraws ==
    {[position |-> Scaled(p), velocity |-> <<0, 0>>, size |-> GenSize("Asteroid")] :
        p \in {<<0, -30>>, <<0, -40>>}}
NebulaDraws ==
    {[position |-> Scaled(<<100, 0>>), velocity |-> <<0, 0>>, size |-> GenSize("Nebula")]}
BlackHoleDraws ==
    {[position |-> Scaled(<<0, 100>>), velocity |-> <<0, 0>>,
      size |-> GenSize("BlackHole")]}

\* below: random.random() < 0.7, line 68
GenDraws ==
    {[stars |-> s, planets |-> p, asteroids |-> a, nebulae |-> n, black_holes |-> b] :
        s \in SeqsOf(StarDraws, 1, max_star_count),
        p \in SeqsOf(PlanetDraws, 1, max_planet_count),
        a \in SeqsOf(AsteroidDraws, 1, max_asteroid_count),
        n \in SeqsOf(NebulaDraws, max_nebula_count, max_nebula_count),
        b \in SeqsOf(BlackHoleDraws, 1, max_black_hole_count)}

InitGen ==
    /\ InitUniverse({<<>>}, 0)
    /\ gravity_enabled = TRUE
    /\ collision_detection = TRUE

NextGen == Reset(GenDraws)

SpecGen == InitGen /\ [][NextGen]_vars

\* Generation with the sizes drawn: of each kind's range the two ends, and the
\* sizes 0 and 1 where the range holds them.  Every planet is free-floating and
\* the bodies of one kind are drawn at one place.
SizeSamples(kind) ==
    {s \in SizeRange(kind) :
        \/ \A t \in SizeRange(kind) : s <= t
        \/ \A t \in SizeRange(kind) : s >= t
        \/ s \in {0, 1}}

SizedDraws(kind, draws) ==
    {[d EXCEPT !.size = s] : d \in draws, s \in SizeSamples(kind)}

SizeDraws ==
    {[stars |-> s, planets |-> p, asteroids |-> a, nebulae |-> n, black_holes |-> b] :
        s \in SeqsOf(SizedDraws("Star", StarDraws), 1, max_star_count),
        p \in SeqsOf(SizedDraws("Planet",
                                {d \in PlanetDraws :
                                    ~d.below /\ d.position = Scaled(<<40, 0>>)}),
                     1, max_planet_count),
        a \in SeqsOf(SizedDraws("Asteroid",
                                {d \in AsteroidDraws : d.position = Scaled(<<0, -40>>)}),
                     1, max_asteroid_count),
        n \in SeqsOf(SizedDraws("Nebula", NebulaDraws), max_nebula_count,
                     max_nebula_count),
        b \in SeqsOf(SizedDraws("BlackHole", BlackHoleDraws), 1, max_black_hole_count)}

InitSize ==
    /\ InitUniverse({<<>>}, 0)
    /\ gravity_enabled = TRUE
    /\ collision_detection = TRUE

NextSize == Reset(SizeDraws)

SpecSize == InitSize /\ [][NextSize]_vars

\* The program: main() generates a universe and runs the presentation loop.
\* The draws are those of one star, one planet, one asteroid.
LoopDraws ==
    {d \in GenDraws :
        /\ Len(d.stars) = 1 /\ Len(d.planets) = 1 /\ Len(d.asteroids) = 1
        /\ Len(d.black_holes) = 1
        /\ d.planets[1].below
        /\ d.asteroids[1].position = Scaled(<<0, -30>>)}

\* Left clicks at the screen centre, one pixel and sixty pixels to its right
ClickPositions == {<<600, 400>>, <<601, 400>>, <<660, 400>>}

InitLoop ==
    /\ \E d \in LoopDraws : objects = generate_universe(d).objects
    /\ created = objects
    /\ path = [nm \in {objects[i].name : i \in 1..Len(objects)} |-> <<>>]
    /\ time = 0
    /\ time_step = TIME_STEP
    /\ raised = FALSE
    /\ ticks = 0
    /\ last = NoLast
    /\ generation = 1
    /\ gravity_enabled = TRUE
    /\ collision_detection = TRUE
    /\ InitGUI
    /\ pc = "events"
    /\ main_paused = FALSE
    /\ nev = 0
    /\ query = NoQuery

NextLoop ==
    \/ HandleQuit
    \/ HandleSpace
    \/ HandleReset(LoopDraws)
    \/ HandleIncreaseTimeStep
    \/ HandleDecreaseTimeStep
    \/ HandleLeftClick(ClickPositions)
    \/ EndEvents
    \/ Render
    \/ LoopUpdate
    \/ LoopSkip

SpecLoop == InitLoop /\ [][NextLoop]_vars

\* get_nearest_object called on its own, on worlds of no body and more
QueryPoints == {<<0, 0>>, <<5, 0>>, <<0, 6>>, <<600, 0>>}

GetNearestObject ==
    /\ ~query.made
    /\ \E position \in QueryPoints :
          query' = [made |-> TRUE, position |-> Scaled(position), objects |-> objects,
                    result |-> get_nearest_object(objects, Scaled(position))]
    /\ UNCHANGED <<engine, gui, loop>>

InitNearest ==
    /\ InitWorld(UNION {Worlds(n, {5}, Positions) : n \in 0..MaxBodies})
    /\ gravity_enabled = TRUE
    /\ collision_detection = TRUE

NextNearest == GetNearestObject

SpecNearest == InitNearest /\ [][NextNearest]_vars

\* The world under a caller that adjusts the tick size between ticks
StepMasses == {0, 10}
StepPositions == {<<0, 0>>, <<9, 0>>, <<0, 12>>}

InitStep ==
    /\ InitWorld(UNION {Worlds(n, StepMasses, StepPositions) : n \in 0..2})
    /\ gravity_enabled = TRUE
    /\ collision_detection = TRUE

NextStep == Update(MaxTicks) \/ IncreaseTimeStep \/ DecreaseTimeStep

SpecStep == InitStep /\ [][NextStep]_vars

\* The program as built over worlds of massless and equal-mass bodies, on which
\* the properties of the phases of one tick are checked
PhaseMasses == {0, 10}

InitPhase ==
    /\ InitWorld(UNION {Worlds(n, PhaseMasses, Positions) : n \in 0..MaxBodies})
    /\ gravity_enabled = TRUE
    /\ collision_detection = TRUE

NextPhase == Update(MaxTicks)

SpecPhase == InitPhase /\ [][NextPhase]_vars

----------------------------------------------------------------------------
(* Reference definitions used by the properties *)

NamesOf(objs) == {objs[i].name : i \in 1..Len(objs)}

Updated == last.op = "update"

\* The velocity change of body i in the last tick
DeltaV(i) == <<last.moved[i].velocity[1] - last.pre[i].velocity[1],
               last.moved[i].velocity[2] - last.pre[i].velocity[2]>>

\* The force on o1 from o2: G*K*m1*m2/d^2 along the unit vector toward o2
PairForce(o1, o2) ==
    LET d == calculate_distance(o1.position, o2.position)
    IN IF d = 0 \/ o1.mass <= 0 \/ o2.mass <= 0 THEN <<0, 0>>
       ELSE LET mag == calculate_gravitational_force(o1.mass, o2.mass, d)
            IN <<Div(mag * Div((o2.position[1] - o1.position[1]) * FP, d), FP) * FORCE_CONSTANT,
                 Div(mag * Div((o2.position[2] - o1.position[2]) * FP, d), FP) * FORCE_CONSTANT>>

\* The single-pass reference: each unordered pair {i, j}, i < j, is visited once,
\* adding PairForce(i, j) to body i and its negation to body j.  The total of
\* body b over the pairs numbered k and above (pair k is LoopPairs(n)[k]).
RECURSIVE SinglePassFrom(_, _, _)
SinglePassFrom(objs, b, k) ==
    IF k > Len(objs) * Len(objs) THEN <<0, 0>>
    ELSE LET pr == LoopPairs(Len(objs))[k]
             rest == SinglePassFrom(objs, b, k + 1)
             f == PairForce(objs[pr[1]], objs[pr[2]])
         IN IF pr[1] < pr[2] /\ b = pr[1] THEN <<rest[1] + f[1], rest[2] + f[2]>>
            ELSE IF pr[1] < pr[2] /\ b = pr[2] THEN <<rest[1] - f[1], rest[2] - f[2]>>
            ELSE rest

SinglePass(objs, b) == SinglePassFrom(objs, b, 1)

\* The pairwise rule: the strictly lighter body loses, the second on a tie
Loser(o1, o2) == IF o1.mass < o2.mass THEN o1.name ELSE o2.name

\* i and j overlap: distance < size sum, compared on the squares
Overlap(o1, o2) ==
    LET dx == o1.position[1] - o2.position[1]
        dy == o1.position[2] - o2.position[2]
        thr == (o1.size + o2.size) * FP
    IN thr > 0 /\ dx * dx + dy * dy < thr * thr

----------------------------------------------------------------------------
(* C1 *)

\* C1 (as claimed): a tick that completes while gravity_enabled is false changes
\* no body's velocity, position or trail.
C1_GravityOffFreezesMotion ==
    (Updated /\ ~last.gravity /\ ~raised) =>
        \A i \in 1..Len(last.pre) :
            /\ last.moved[i].velocity = last.pre[i].velocity
            /\ last.moved[i].position = last.pre[i].position
            /\ last.moved[i].trail = last.pre[i].trail

(* C2 *)

\* C2 (as claimed): after the force pass with gravity enabled every body's
\* accumulated force equals the single-pass reference total.
C2_DoublePassEqualsSinglePass ==
    (Updated /\ last.gravity) =>
        \A b \in 1..Len(last.pre) : last.forced[b].force = SinglePass(last.pre, b)

(* C3 *)

MutuallyOverlapping(objs) ==
    \A i, j \in 1..Len(objs) : i # j => Overlap(objs[i], objs[j])

\* C3: in one update() the removed bodies are exactly the losers of the pairs
\* detected on the integrated (pre-removal) bodies, the survivors are kept in
\* order and unchanged, and of three mutually overlapping bodies of masses 10, 5
\* and 5 (in any order) exactly the one of mass 10 survives.
C3_RemovedAreExactlyLosers ==
    (Updated /\ ~raised) =>
        /\ NamesOf(last.moved) \ NamesOf(objects)
             = {Loser(last.moved[last.pairs[k][1]], last.moved[last.pairs[k][2]]) :
                    k \in 1..Len(last.pairs)}
        /\ objects = SelectSeq(last.moved, LAMBDA o : o.name \in NamesOf(objects))
        /\ (/\ Len(last.moved) = 3
            /\ MutuallyOverlapping(last.moved)
            /\ \E a \in 1..3 : /\ last.moved[a].mass = 10
                               /\ \A b \in (1..3) \ {a} : last.moved[b].mass = 5)
           => (Len(objects) = 1 /\ objects[1].mass = 10)

\* C3's case: three overlapping bodies of masses 5, 5, 10 in that order, two
\* of them removed (one of them the loser of two pairs) and the last one left
C3_Witness ==
    /\ Updated /\ ~raised
    /\ Len(last.moved) = 3
    /\ MutuallyOverlapping(last.moved)
    /\ last.moved[1].mass = 5 /\ last.moved[2].mass = 5 /\ last.moved[3].mass = 10
    /\ Len(last.pairs) = 3
    /\ Len(objects) = 1 /\ objects[1].name = last.moved[3].name

(* C4 *)

\* C4: check_collisions reports (A, B) iff A precedes B and distance(A, B) <
\* size(A) + size(B); no pair is reported twice and none pairs a body with itself.
C4_ReportedPairsExact ==
    Updated =>
        /\ {last.pairs[k] : k \in 1..Len(last.pairs)}
             = {pr \in (1..Len(last.moved)) \X (1..Len(last.moved)) :
                    pr[1] < pr[2] /\ Overlap(last.moved[pr[1]], last.moved[pr[2]])}
        /\ \A k, l \in 1..Len(last.pairs) :
               k # l => {last.pairs[k][1], last.pairs[k][2]}
                          # {last.pairs[l][1], last.pairs[l][2]}
        /\ \A k \in 1..Len(last.pairs) : last.pairs[k][1] # last.pairs[k][2]

\* C4's case: of three bodies some pair is reported and some pair is not
C4_Witness ==
    /\ Updated
    /\ Len(last.moved) = 3
    /\ Len(last.pairs) = 2
    /\ \E i, j \in 1..3 : i < j /\ ~Overlap(last.moved[i], last.moved[j])

(* C5 *)

\* C5: handle_collision returns the strictly lighter of its two operands, the
\* second operand when the masses are equal, and always exactly one of the two.
C5_LoserRule ==
    Updated =>
        /\ Len(last.to_remove) = Len(last.pairs)
        /\ \A k \in 1..Len(last.pairs) :
              LET o1 == last.moved[last.pairs[k][1]]
                  o2 == last.moved[last.pairs[k][2]]
              IN /\ last.to_remove[k] \in {o1.name, o2.name}
                 /\ (o1.mass < o2.mass => last.to_remove[k] = o1.name)
                 /\ (o2.mass < o1.mass => last.to_remove[k] = o2.name)
                 /\ (o1.mass = o2.mass => last.to_remove[k] = o2.name)

\* C5's case: one tick resolves a pair whose first operand is lighter, a pair
\* whose second operand is lighter and a tie
C5_Witness ==
    /\ Updated
    /\ \E k, l, t \in 1..Len(last.pairs) :
          /\ last.moved[last.pairs[k][1]].mass < last.moved[last.pairs[k][2]].mass
          /\ last.to_remove[k] = last.moved[last.pairs[k][1]].name
          /\ last.moved[last.pairs[l][1]].mass > last.moved[last.pairs[l][2]].mass
          /\ last.to_remove[l] = last.moved[last.pairs[l][2]].name
          /\ last.moved[last.pairs[t][1]].mass = last.moved[last.pairs[t][2]].mass
          /\ last.to_remove[t] = last.moved[last.pairs[t][2]].name

(* C6 *)

\* C6 (as claimed): every update() finishes without raising and advances time
\* by time_step.
C6_TickCompletes ==
    [][ticks' = ticks + 1 => (~raised' /\ time' = time + time_step)]_vars

(* C7 *)

\* objs without its i-th body
Without(objs, i) == [k \in 1..(Len(objs) - 1) |-> IF k < i THEN objs[k] ELSE objs[k + 1]]

\* The accumulated force of body j of objs after a force pass over objs without body i
ForceWithout(objs, i, j) ==
    calculate_gravitational_forces(Without(objs, i), TRUE)[IF j < i THEN j ELSE j - 1].force

\* C7: a BlackHole's velocity is always the velocity it was created with; in a
\* tick with gravity its pull is part of every other body's accumulated force
\* (the pair's force, which the two visits of the pair add twice), and its
\* position advances by velocity * dt.
C7_BlackHoleVelocityFrozen ==
    /\ \A i \in 1..Len(objects) :
          objects[i].kind = "BlackHole"
              => objects[i].velocity = Find(created, objects[i].name).velocity
    /\ Updated =>
          \A i \in 1..Len(last.pre) :
              last.pre[i].kind = "BlackHole" =>
                  /\ last.moved[i].velocity = last.pre[i].velocity
                  /\ last.moved[i].position
                       = <<last.pre[i].position[1] + last.pre[i].velocity[1] * last.dt,
                           last.pre[i].position[2] + last.pre[i].velocity[2] * last.dt>>
                  /\ last.gravity =>
                        \A j \in (1..Len(last.pre)) \ {i} :
                            LET f == PairForce(last.pre[j], last.pre[i])
                                w == ForceWithout(last.pre, i, j)
                            IN last.forced[j].force = <<w[1] + 2 * f[1], w[2] + 2 * f[2]>>

\* C7's case: in a second tick a moving BlackHole has a non-zero force
\* accumulated on it and pulls on another body
C7_Witness ==
    /\ Updated /\ ticks = 2
    /\ \E i, j \in 1..Len(last.pre) :
          /\ last.pre[i].kind = "BlackHole"
          /\ last.pre[i].velocity # <<0, 0>>
          /\ last.forced[i].force # <<0, 0>>
          /\ j # i
          /\ PairForce(last.pre[j], last.pre[i]) # <<0, 0>>
          /\ last.moved[j].velocity # last.pre[j].velocity

(* C8 *)

Max(a, b) == IF a >= b THEN a ELSE b

\* A tick with gravity over exactly two bodies of positive mass at distance > 0
TwoBodyTick ==
    /\ Updated /\ last.gravity
    /\ Len(last.pre) = 2
    /\ last.pre[1].mass > 0 /\ last.pre[2].mass > 0
    /\ last.pre[1].position # last.pre[2].position

\* m1*dv1 = -m2*dv2, to the rounding of the two divisions by the masses
MomentumBalanced ==
    \A c \in 1..2 :
        Abs(last.pre[1].mass * DeltaV(1)[c] + last.pre[2].mass * DeltaV(2)[c])
            < Max(last.pre[1].mass, last.pre[2].mass) * last.dt

\* C8 (as claimed): for any two bodies of positive mass at distance > 0 the
\* momentum changes of one tick are equal and opposite.
C8_MomentumEqualOpposite == TwoBodyTick => MomentumBalanced

\* C8 (amended): the accumulated forces of the two bodies sum to zero, and the
\* momentum changes are equal and opposite when neither body is a BlackHole.
C8_MomentumEqualOppositeUnlessBlackHole ==
    TwoBodyTick =>
        /\ last.forced[1].force[1] + last.forced[2].force[1] = 0
        /\ last.forced[1].force[2] + last.forced[2].force[2] = 0
        /\ (last.pre[1].kind # "BlackHole" /\ last.pre[2].kind # "BlackHole")
               => MomentumBalanced

\* C8's case: two planets of different mass accelerate each other
C8_Witness ==
    /\ TwoBodyTick
    /\ last.pre[1].kind # "BlackHole" /\ last.pre[2].kind # "BlackHole"
    /\ last.pre[1].mass # last.pre[2].mass
    /\ DeltaV(1) # <<0, 0>> /\ DeltaV(2) # <<0, 0>>
    /\ DeltaV(1) # DeltaV(2)

(* C9 *)

SepSq(objs) ==
    (objs[1].position[1] - objs[2].position[1]) * (objs[1].position[1] - objs[2].position[1])
  + (objs[1].position[2] - objs[2].position[2]) * (objs[1].position[2] - objs[2].position[2])

\* C9 (as claimed): from rest at (-10, 0) and (10, 0), in every tick made while
\* both bodies are in the world either the collision is reported or the
\* separation has strictly decreased and the bodies have not passed each other.
C9_StrictAttractionUntilCollision ==
    [][(ticks' = ticks + 1 /\ Len(objects) = 2)
          => \/ last'.pairs # <<>>
             \/ /\ SepSq(last'.moved) < SepSq(objects)
                /\ last'.moved[1].position[1] < last'.moved[2].position[1]]_vars

(* C10 *)

Min(a, b) == IF a <= b THEN a ELSE b

Capacity(kind) ==
    IF kind = "Asteroid" THEN 20 ELSE IF kind = "Nebula" THEN 10 ELSE 50

\* C10: every body's trail is at most its capacity long (50, 20 for an Asteroid,
\* 10 for a Nebula), it is the most recent positions of the body in the order
\* they were taken, and after a tick its last element is the body's position.
C10_TrailBounded ==
    \A i \in 1..Len(objects) :
        LET o == objects[i]
            h == path[o.name]
            n == Min(Capacity(o.kind), Len(h))
        IN /\ o.max_trail_length = Capacity(o.kind)
           /\ Len(o.trail) <= Capacity(o.kind)
           /\ o.trail = SubSeq(h, Len(h) - n + 1, Len(h))
           /\ (Len(h) > 0 => o.trail[Len(o.trail)] = o.position)

\* C10's case: a default-capacity body in motion after more ticks than its
\* capacity, its trail full and its oldest positions evicted
C10_Witness ==
    /\ Len(objects) = 1
    /\ objects[1].kind = "Planet"
    /\ objects[1].velocity # <<0, 0>>
    /\ Len(path["A"]) = 52
    /\ Len(objects[1].trail) = 50
    /\ objects[1].trail[1] = path["A"][3]

(* C12 *)

\* The distance of body i of the last query from the point asked for
QueryDistance(i) == calculate_distance(query.position, query.objects[i].position)

\* C12: get_nearest_object on a world with bodies returns a body of the world
\* at minimal distance from the point, the first such body in iteration order,
\* together with that distance; on an empty world it returns (None, inf).
C12_NearestIsFirstMinimum ==
    query.made =>
        IF query.objects = <<>>
        THEN query.result.nearest_obj = None /\ query.result.inf
        ELSE /\ ~query.result.inf
             /\ \E i \in 1..Len(query.objects) :
                   /\ query.objects[i].name = query.result.nearest_obj
                   /\ query.result.min_distance = QueryDistance(i)
                   /\ \A j \in 1..Len(query.objects) : QueryDistance(j) >= QueryDistance(i)
                   /\ \A j \in 1..(i - 1) : QueryDistance(j) > QueryDistance(i)

\* C12's case: of three bodies the second and the third are nearest, at the
\* same distance, and nearer than the first
C12_Witness ==
    /\ query.made
    /\ Len(query.objects) = 3
    /\ QueryDistance(2) = QueryDistance(3)
    /\ QueryDistance(2) < QueryDistance(1)
    /\ query.objects[2].position # query.objects[3].position
    /\ query.result.nearest_obj = query.objects[2].name

(* C13 *)

\* C13: no step but a reset adds a body; a step that is not a reset leaves the
\* world with a subset of its names, every survivor keeping its mass and its
\* size, and a body is missing only after a tick that marked it for removal.
C13_EngineNeverCreatesBodies ==
    [][generation' = generation =>
          /\ NamesOf(objects') \subseteq NamesOf(objects)
          /\ Len(objects') <= Len(objects)
          /\ \A i \in 1..Len(objects') :
                /\ objects'[i].mass = Find(objects, objects'[i].name).mass
                /\ objects'[i].size = Find(objects, objects'[i].name).size
          /\ NamesOf(objects') # NamesOf(objects) =>
                /\ ticks' = ticks + 1
                /\ \A nm \in NamesOf(objects) \ NamesOf(objects') :
                       \E k \in 1..Len(last'.to_remove) : last'.to_remove[k] = nm]_vars

\* C13's case: after a reset a tick has removed a body of the new universe and
\* kept others
C13_Witness ==
    /\ generation = 2
    /\ Updated
    /\ NamesOf(last.pre) = NamesOf(created)
    /\ Len(objects) < Len(last.pre)
    /\ Len(objects) > 1

(* C14 *)

\* C14: the loop goes from the events to the rendering to the update and back;
\* update() is called only there, once, and exactly when the GUI is not paused;
\* while the GUI is paused the time and the bodies change only by a reset
\* event, and the tick size only by a key event.
C14_LoopSequential ==
    [][/\ pc = "events" => pc' \in {"events", "render", "done"}
       /\ pc = "render" => (pc' = "update" /\ UNCHANGED <<engine, gui>>)
       /\ pc = "update" => pc' \in {"events", "done"}
       /\ pc # "done"
       /\ ticks' # ticks => (pc = "update" /\ ~paused /\ ticks' = ticks + 1)
       /\ pc = "update" => (ticks' = ticks + 1 <=> ~paused)
       /\ (paused /\ (objects' # objects \/ time' # time))
             => (pc = "events" /\ generation' = generation + 1)
       /\ (paused /\ time_step' # time_step) => pc = "events"]_vars

\* C14's case: the GUI was paused after a tick, an iteration has skipped the
\* update, and a reset was handled
C14_Witness ==
    /\ paused /\ main_paused
    /\ pc = "events"
    /\ ticks = 1
    /\ generation = 2
    /\ time = 0

(* C20 *)

\* C20 (as claimed): whenever a body is selected it is one of the bodies of
\* universe.objects.
C20_SelectionValid ==
    selected_object # NoObject =>
        /\ selected_object.generation = generation
        /\ selected_object.name \in NamesOf(objects)

(* C15 *)

\* C15: in a force pass two distinct bodies at exactly the same position
\* contribute nothing to each other: each one's accumulated force is what the
\* pass yields with the other body taken out of the world, and the tick is
\* completed without an exception.
C15_CoincidentPairContributesNothing ==
    (Updated /\ last.gravity) =>
        /\ ~raised
        /\ \A i, j \in 1..Len(last.pre) :
               (i # j /\ last.pre[i].position = last.pre[j].position)
                   => last.forced[j].force = ForceWithout(last.pre, i, j)

\* C15's case: two coincident bodies of positive mass, one of them pulled by a
\* third body elsewhere
C15_Witness ==
    /\ Updated /\ last.gravity /\ ~raised
    /\ Len(last.pre) = 3
    /\ \E i, j \in 1..3 :
          /\ i # j
          /\ last.pre[i].position = last.pre[j].position
          /\ last.pre[i].mass > 0 /\ last.pre[j].mass > 0
          /\ last.forced[j].force # <<0, 0>>

(* C16 *)

C17_StableOrbitFrame ==
    last.op = "create_stable_orbit" =>
        /\ (last.pre[last.central].mass <= 0 \/ last.orbital_distance <= 0)
               => objects = last.pre
        /\ objects[last.central] = last.pre[last.central]
        /\ objects[last.orbiting]
              = [last.pre[last.orbiting] EXCEPT !.position = objects[last.orbiting].position,
                                                !.velocity = objects[last.orbiting].velocity]
        /\ Len(objects) = Len(last.pre)

\* C17's case: a call with a positive distance and a massless central body has
\* left a body that has a trail where it was
C17_Witness ==
    /\ last.op = "create_stable_orbit"
    /\ last.pre[last.central].mass = 0
    /\ last.orbital_distance > 0
    /\ last.pre[last.orbiting].trail # <<>>
    /\ last.pre[last.orbiting].velocity # <<0, 0>>
    /\ Bearing(last.pre[last.central].position, last.pre[last.orbiting].position) # <<FP, 0>>

(* C18 *)

\* The pull on body i of all the other bodies of the snapshot objs, each pair
\* counted twice as the two visits of the force pass do; j is the next body
RECURSIVE SnapshotForceFrom(_, _, _)
SnapshotForceFrom(objs, i, j) ==
    IF j > Len(objs) THEN <<0, 0>>
    ELSE LET rest == SnapshotForceFrom(objs, i, j + 1)
             f == PairForce(objs[i], objs[j])
         IN IF j = i THEN rest ELSE <<rest[1] + 2 * f[1], rest[2] + 2 * f[2]>>

SnapshotForce(objs, i) == SnapshotForceFrom(objs, i, 1)

\* C18: in one tick every force is computed from the pre-tick positions and
\* masses, with no velocity or position changed by the force pass; every
\* velocity is then integrated from that force; every position is integrated
\* from the new velocity; collisions are the overlaps of the integrated
\* positions; and removals come last, out of the integrated bodies.
C18_PhaseOrder ==
    Updated =>
        /\ \A i \in 1..Len(last.pre) :
              LET b == last.pre[i]
                  f == last.forced[i]
                  m == last.moved[i]
              IN /\ f.position = b.position /\ f.velocity = b.velocity
                 /\ f.force = IF last.gravity THEN SnapshotForce(last.pre, i) ELSE b.force
                 /\ m.force = f.force
                 /\ m.velocity = IF b.mass > 0 /\ b.kind # "BlackHole"
                                  THEN <<b.velocity[1] + Div(f.force[1], b.mass) * last.dt,
                                         b.velocity[2] + Div(f.force[2], b.mass) * last.dt>>
                                  ELSE b.velocity
                 /\ m.position = <<b.position[1] + m.velocity[1] * last.dt,
                                    b.position[2] + m.velocity[2] * last.dt>>
        /\ \A k \in 1..Len(last.pairs) :
               Overlap(last.moved[last.pairs[k][1]], last.moved[last.pairs[k][2]])
        /\ ~raised =>
               objects = SelectSeq(last.moved,
                                   LAMBDA o : \A k \in 1..Len(last.to_remove) :
                                                  o.name # last.to_remove[k])

\* C18's case: a tick in which a body at rest is accelerated and moved by its
\* new velocity, and a collision found on the moved positions removes a body
C18_Witness ==
    /\ Updated /\ last.gravity /\ ~raised
    /\ Len(last.pairs) > 0
    /\ Len(objects) < Len(last.moved)
    /\ \E i \in 1..Len(last.pre) :
          /\ last.pre[i].velocity = <<0, 0>>
          /\ last.moved[i].velocity # <<0, 0>>
          /\ last.moved[i].position # last.pre[i].position
    /\ \E k \in 1..Len(last.pairs) :
          ~Overlap(last.pre[last.pairs[k][1]], last.pre[last.pairs[k][2]])

(* C19 *)

\* C19 (as claimed): after generate_universe every planet whose draw was below
\* 0.7 has for parent_star one of the Stars of the universe, 50 to 300 units
\* away, and create_stable_orbit was applied once for every planet that has a
\* parent star.
C19_PlanetsGetParentStar ==
    last.op = "generate_universe" =>
        /\ \A i \in 1..Len(last.draws.planets) :
              last.draws.planets[i].below =>
                  LET planet == Find(created, PlanetNames[i])
                  IN /\ planet.parent_star # None
                     /\ \E k \in 1..Len(created) :
                           /\ created[k].kind = "Star"
                           /\ created[k].name = planet.parent_star
                           /\ calculate_distance(planet.position, created[k].position)
                                 \in (50 * FP)..(300 * FP)
        /\ last.orbit_calls
             = Cardinality({k \in 1..Len(created) :
                               /\ created[k].kind = "Planet"
                               /\ created[k].parent_star # None})

(* C21 *)

\* C21 (as claimed): every body produced by generate_universe has a strictly
\* positive size whatever the random draws were, so that the collision
\* threshold size(A) + size(B) of any two generated bodies is positive.
C21_GeneratedSizesPositive ==
    last.op = "generate_universe" =>
        /\ \A i \in 1..Len(created) : created[i].size > 0
        /\ \A i, j \in 1..Len(created) :
               i < j => created[i].size + created[j].size > 0

(* C11 *)

\* C11 (as claimed): after any sequence of increase_time_step and
\* decrease_time_step calls time_step is strictly positive, and no tick leaves
\* the elapsed time smaller than it found it.
C11_TimeStepStaysPositive ==
    /\ time_step > 0
    /\ (Updated /\ ~raised) => time >= last.time

====
